---- MODULE Spec2Model ----
(***************************************************************************)
(* Model of processing_scripts_checkv_v1/split_genbank.py.                 *)
(*                                                                         *)
(* split_genbank(input_file, output_dir) creates the output directory,     *)
(* parses every record of the GenBank input into a list, and then writes   *)
(* record number i (counted from 1) to <output_dir>/pharokka_<i>.gbk,      *)
(* printing "Written <path>" after each write.  The model follows the      *)
(* function statement by statement; the filesystem, the standard output    *)
(* and the faults of the environment (missing input, malformed record,     *)
(* refused directory creation, failing write) are part of the state.  The  *)
(* program may be run several times against the same output directory.     *)
(***************************************************************************)
EXTENDS Integers, Sequences, FiniteSets

\* Bounds of the model.
MaxRecs == 3        \* longest input file, in record blocks
MaxRuns == 2        \* number of invocations of the program

VARIABLES
    pc,          \* position of the current run in split_genbank
    run,         \* number of invocations started so far
    input_file,  \* what the input path holds: [exists, blocks]
    fault,       \* history: the call the environment has made fail, or "none"
    fs_dir,      \* what the output_dir path is: "absent", "dir" or "file"
    files,       \* the files of the output directory: name -> content
    records,     \* the list built at line 10
    pos,         \* number of input blocks the parser has consumed
    n,           \* number of items the for loop has drawn from enumerate
    item,        \* the loop variables (i, record) of line 13; <<>> unbound
    stdout,      \* lines printed by the current run
    pre,         \* history: files and fs_dir when the current run started
    written,     \* history: paths whose write completed in this run, in order
    touched,     \* history: paths opened for writing in this run
    rerun        \* history: the previous run completed, on this same input

vars == <<pc, run, input_file, fault, fs_dir, files, records, pos, n, item,
          stdout, pre, written, touched, rerun>>

----------------------------------------------------------------------------
\* Records and the GenBank text they come from.

RecA == [id |-> "phageA", seq |-> "ACGT", features |-> <<"CDS">>]
RecB == [id |-> "phageB", seq |-> "GGCC", features |-> <<>>]

\* A block of GenBank text: the data of one record, how it is laid out
\* (the writer has one layout of its own), and whether the block is a
\* complete, well-formed record.
Block(r, layout, complete) ==
    [id |-> r.id, seq |-> r.seq, features |-> r.features,
     layout |-> layout, complete |-> complete]

InputBlocks ==
    { Block(RecA, "reflowed", TRUE),
      Block(RecB, "canonical", TRUE),
      Block(RecB, "reflowed", FALSE) }

RECURSIVE SeqsUpTo(_, _)
SeqsUpTo(S, len) ==
    IF len = 0 THEN { <<>> }
    ELSE LET shorter == SeqsUpTo(S, len - 1)
         IN  shorter \cup { Append(s, x) : s \in shorter, x \in S }

NoFile == [exists |-> FALSE, blocks |-> <<>>]

InputFiles ==
    { NoFile } \cup { [exists |-> TRUE, blocks |-> b] : b \in SeqsUpTo(InputBlocks, MaxRecs) }

\* SeqIO.parse on one block: the record it yields.
genbank_parse(b) == [id |-> b.id, seq |-> b.seq, features |-> b.features]

\* SeqIO.write of one record: the text it produces.
genbank_write(r) == Block(r, "canonical", TRUE)

\* Re-parsing a file: the records of its blocks, when every block is complete.
RECURSIVE ParseAll(_)
ParseAll(blocks) ==
    IF blocks = <<>> THEN <<>>
    ELSE <<genbank_parse(Head(blocks))>> \o ParseAll(Tail(blocks))

WellFormed(blocks) == \A k \in 1..Len(blocks) : blocks[k].complete

----------------------------------------------------------------------------
\* The pieces of split_genbank.

\* Variants of the definitions below, each with one plausible slip.
exist_ok_false == FALSE

os_makedirs_lazy(d) == d

EnumerateStart_zero == 1 - 1

EnumerateItem_first(recs, k) == <<k, recs[1]>>

OpenForWrite_append(fs, p) ==
    [q \in DOMAIN fs \cup {p} |-> IF q \in DOMAIN fs THEN fs[q] ELSE <<>>]

OpenForWrite_wipe(fs, p) == [q \in {p} |-> <<>>]

InputOpens_always(f) == TRUE

ParseDone_first(f, consumed) == consumed >= 1 \/ consumed = Len(f.blocks)

PcAfterWrite_skip == "loop"

PcOnWriteError_continue == "loop"

\* os.makedirs(output_dir, exist_ok=True): the flag, and what the path is
\* once the call has returned.
exist_ok == TRUE

os_makedirs(d) == "dir"

\* enumerate(records, 1)
EnumerateStart == 1

\* os.path.join(output_dir, f"pharokka_{i}.gbk")
OutputFile(idx) == <<"pharokka_", idx, ".gbk">>

\* A file of the output directory that the program has no name for.
OtherFile == <<"notes", 0, ".txt">>

\* The k-th item enumerate(records, 1) yields: (counter, record).
EnumerateItem(recs, k) == <<EnumerateStart + k - 1, recs[k]>>

\* open(path, "w"): the file exists afterwards and is empty.
OpenForWrite(fs, p) ==
    [q \in DOMAIN fs \cup {p} |-> IF q = p THEN <<>> ELSE fs[q]]

\* Writing text to the open file.
WriteText(fs, p, text) ==
    [q \in DOMAIN fs |-> IF q = p THEN Append(fs[q], text) ELSE fs[q]]

\* Whether opening the input path succeeds.
InputOpens(f) == f.exists

\* Whether the parser has reached the end of the input.
ParseDone(f, consumed) == consumed = Len(f.blocks)

\* Where control goes after line 15 completes, and after it raises.
PcAfterWrite == "print"
PcOnWriteError == "failed"

\* print(f"Written {output_file}")
ProgressLine(p) == <<"Written", p>>

----------------------------------------------------------------------------
Init ==
    /\ pc = "idle"
    /\ run = 0
    /\ input_file = NoFile
    /\ fault = "none"
    /\ fs_dir \in {"absent", "dir", "file"}
    /\ files = IF fs_dir = "dir"
               THEN [q \in {OtherFile} |-> <<Block(RecA, "reflowed", TRUE)>>]
               ELSE <<>>
    /\ records = <<>>
    /\ pos = 0
    /\ n = 0
    /\ item = <<>>
    /\ stdout = <<>>
    /\ pre = [files |-> files, dir |-> fs_dir]
    /\ written = <<>>
    /\ touched = {}
    /\ rerun = FALSE

\* The program is invoked (lines 18-25): a new process, a new standard output.
Start ==
    /\ pc \in {"idle", "done", "failed"}
    /\ run < MaxRuns
    /\ run' = run + 1
    /\ \E f \in InputFiles :
          /\ input_file' = f
          /\ rerun' = (pc = "done" /\ f = input_file)
    /\ fault' = "none"
    /\ pc' = "makedirs"
    /\ records' = <<>>
    /\ pos' = 0
    /\ n' = 0
    /\ item' = <<>>
    /\ stdout' = <<>>
    /\ pre' = [files |-> files, dir |-> fs_dir]
    /\ written' = <<>>
    /\ touched' = {}
    /\ UNCHANGED <<fs_dir, files>>

\* Line 7: os.makedirs(output_dir, exist_ok=True).  The call raises when
\* the path is a file, or when the environment refuses it (permissions).
Makedirs ==
    /\ pc = "makedirs"
    /\ \/ /\ pc' = "failed"
          /\ fault' = "makedirs"
          /\ UNCHANGED fs_dir
       \/ /\ IF fs_dir = "file" \/ (fs_dir = "dir" /\ ~exist_ok)
             THEN /\ pc' = "failed"
                  /\ UNCHANGED fs_dir
             ELSE /\ pc' = "open"
                  /\ fs_dir' = os_makedirs(fs_dir)
          /\ UNCHANGED fault
    /\ UNCHANGED <<run, input_file, files, records, pos, n, item, stdout,
                   pre, written, touched, rerun>>

\* Line 10: SeqIO.parse opens the input file.
OpenInput ==
    /\ pc = "open"
    /\ pc' = IF InputOpens(input_file) THEN "parse" ELSE "failed"
    /\ UNCHANGED <<run, input_file, fault, fs_dir, files, records, pos, n, item,
                   stdout, pre, written, touched, rerun>>

\* Line 10: list(...) draws the next record from the parser.
ParseRecord ==
    /\ pc = "parse"
    /\ ~ParseDone(input_file, pos)
    /\ LET b == input_file.blocks[pos + 1]
       IN  IF b.complete
           THEN /\ records' = Append(records, genbank_parse(b))
                /\ pos' = pos + 1
                /\ pc' = "parse"
           ELSE /\ pc' = "failed"
                /\ UNCHANGED <<records, pos>>
    /\ UNCHANGED <<run, input_file, fault, fs_dir, files, n, item, stdout,
                   pre, written, touched, rerun>>

\* Line 10: the parser is exhausted, the list is complete.
ParseEnd ==
    /\ pc = "parse"
    /\ ParseDone(input_file, pos)
    /\ pc' = "loop"
    /\ UNCHANGED <<run, input_file, fault, fs_dir, files, records, pos, n, item,
                   stdout, pre, written, touched, rerun>>

\* Line 13: the for statement draws the next item from enumerate.
LoopNext ==
    /\ pc = "loop"
    /\ IF n < Len(records)
       THEN /\ n' = n + 1
            /\ item' = EnumerateItem(records, n + 1)
            /\ pc' = "write_open"
       ELSE /\ pc' = "done"
            /\ UNCHANGED <<n, item>>
    /\ UNCHANGED <<run, input_file, fault, fs_dir, files, records, pos,
                   stdout, pre, written, touched, rerun>>

\* Lines 14-15: SeqIO.write opens the output file for writing; the
\* environment may refuse the open, and the file is then as it was.
WriteOpen ==
    /\ pc = "write_open"
    /\ LET output_file == OutputFile(item[1])
       IN  \/ /\ pc' = PcOnWriteError
              /\ fault' = "write"
              /\ UNCHANGED <<files, touched>>
           \/ /\ IF fs_dir # "dir"
                 THEN /\ pc' = PcOnWriteError
                      /\ UNCHANGED <<files, touched>>
                 ELSE /\ pc' = "write_body"
                      /\ files' = OpenForWrite(files, output_file)
                      /\ touched' = touched \cup {output_file}
              /\ UNCHANGED fault
    /\ UNCHANGED <<run, input_file, fs_dir, records, pos, n, item,
                   stdout, pre, written, rerun>>

\* Line 15: SeqIO.write writes the record and closes the file; the
\* environment may make the write fail, and the file is then left with an
\* incomplete record.
WriteBody ==
    /\ pc = "write_body"
    /\ LET output_file == OutputFile(item[1])
           record == item[2]
       IN  \/ /\ files' = WriteText(files, output_file, genbank_write(record))
              /\ written' = Append(written, output_file)
              /\ pc' = PcAfterWrite
              /\ UNCHANGED fault
           \/ /\ files' = WriteText(files, output_file,
                                    Block(record, "canonical", FALSE))
              /\ pc' = PcOnWriteError
              /\ fault' = "write"
              /\ UNCHANGED written
    /\ UNCHANGED <<run, input_file, fs_dir, records, pos, n, item,
                   stdout, pre, touched, rerun>>

\* Line 16: print(f"Written {output_file}").
PrintWritten ==
    /\ pc = "print"
    /\ stdout' = Append(stdout, ProgressLine(OutputFile(item[1])))
    /\ pc' = "loop"
    /\ UNCHANGED <<run, input_file, fault, fs_dir, files, records, pos, n, item,
                   pre, written, touched, rerun>>

Next ==
    \/ Start
    \/ Makedirs
    \/ OpenInput
    \/ ParseRecord
    \/ ParseEnd
    \/ LoopNext
    \/ WriteOpen
    \/ WriteBody
    \/ PrintWritten

Spec == Init /\ [][Next]_vars

----------------------------------------------------------------------------
\* Vocabulary of the properties.

\* The number of record blocks of the current input.
N == Len(input_file.blocks)

Pharokka(S) == { OutputFile(k) : k \in S }

PharokkaFiles(fs) == { q \in DOMAIN fs : q[1] = "pharokka_" }

Range(s) == { s[k] : k \in 1..Len(s) }

InRun == pc \notin {"idle"}

Writing == pc \in {"write_open", "write_body", "print"}

\* The text the writer produces for input block k.
Rewritten(k) == genbank_write(genbank_parse(input_file.blocks[k]))

\* A fault of the environment or of the input is present in the current run.
Fault ==
    \/ fault # "none"
    \/ pre.dir = "file"
    \/ ~input_file.exists
    \/ ~WellFormed(input_file.blocks)

TypeOK ==
    /\ pc \in {"idle", "makedirs", "open", "parse", "loop", "write_open",
               "write_body", "print", "done", "failed"}
    /\ run \in 0..MaxRuns
    /\ input_file \in InputFiles
    /\ fault \in {"none", "makedirs", "write"}
    /\ fs_dir \in {"absent", "dir", "file"}
    /\ pos \in 0..MaxRecs
    /\ n \in 0..MaxRecs
    /\ rerun \in BOOLEAN

----------------------------------------------------------------------------
\* C1: a run that completes on an input of N records has written exactly
\* the N files pharokka_1.gbk .. pharokka_N.gbk, each once: no pharokka_0,
\* no pharokka_(N+1), and every file the run added to the directory is one
\* of them; in a directory that held no pharokka file before, the pharokka
\* files present afterwards are exactly these N.
C1_ExactlyNFiles ==
    pc = "done" =>
        /\ Len(written) = N
        /\ Range(written) = Pharokka(1..N)
        /\ touched = Pharokka(1..N)
        /\ Pharokka(1..N) \subseteq DOMAIN files
        /\ OutputFile(0) \notin touched
        /\ OutputFile(N + 1) \notin touched
        /\ (DOMAIN files) \ (DOMAIN pre.files) \subseteq Pharokka(1..N)
        /\ (PharokkaFiles(pre.files) = {} => PharokkaFiles(files) = Pharokka(1..N))

C1_Witness ==
    /\ pc = "done"
    /\ N = 3
    /\ PharokkaFiles(pre.files) = {}
    /\ Cardinality(PharokkaFiles(files)) = 3

\* C2: after a run that completes, pharokka_<k>.gbk holds the record at
\* position k of the input, and only that record, for every k in 1..N; the
\* k-th write of the run went to pharokka_<k>.gbk, so no two positions
\* share a file.
C2_IndexIsPosition ==
    pc = "done" =>
        /\ \A k \in 1..N :
              /\ OutputFile(k) \in DOMAIN files
              /\ files[OutputFile(k)] = <<Rewritten(k)>>
              /\ written[k] = OutputFile(k)
        /\ \A j, k \in 1..Len(written) : j # k => written[j] # written[k]

C2_Witness ==
    /\ pc = "done"
    /\ N = 3
    /\ input_file.blocks[1].id # input_file.blocks[2].id
    /\ input_file.blocks[2].id # input_file.blocks[3].id
    /\ files[OutputFile(2)][1].id = input_file.blocks[2].id

\* C3: every file written by a run that completes re-parses to exactly one
\* record, with the identifier, sequence and features of the input record
\* at its position; from the end of parsing on, the list of records is the
\* parse of the input and the record handed to the writer is a member of
\* that list, unchanged.
C3_RoundTrip ==
    /\ pc = "done" =>
          \A k \in 1..N :
              LET out == files[OutputFile(k)]
                  src == genbank_parse(input_file.blocks[k])
              IN  /\ WellFormed(out)
                  /\ Len(ParseAll(out)) = 1
                  /\ ParseAll(out)[1].id = src.id
                  /\ ParseAll(out)[1].seq = src.seq
                  /\ ParseAll(out)[1].features = src.features
    /\ pc \in {"loop", "write_open", "write_body", "print", "done"} =>
          records = ParseAll(input_file.blocks)
    /\ Writing => item[2] = genbank_parse(input_file.blocks[n])

C3_Witness ==
    /\ pc = "done"
    /\ N >= 1
    /\ OutputFile(1) \in DOMAIN pre.files
    /\ files[OutputFile(1)][1] # input_file.blocks[1]
    /\ ParseAll(files[OutputFile(1)]) = <<genbank_parse(input_file.blocks[1])>>
    /\ ParseAll(pre.files[OutputFile(1)]) # ParseAll(files[OutputFile(1)])

\* C4: a run fails only when the environment or the input is at fault, so
\* a run on a well-formed input does not fail because the directory or the
\* files already exist; and a second run on the same input, after a first
\* one that completed, leaves the directory with the files and contents
\* the first run left.
C4_IdempotentRerun ==
    /\ pc = "failed" => Fault
    /\ (rerun /\ pc = "done") => (files = pre.files /\ fs_dir = "dir")

C4_Witness ==
    /\ rerun
    /\ pc = "done"
    /\ N = 3
    /\ pre.dir = "dir"
    /\ touched = Pharokka(1..3)

\* C5: a run on an input file with no record completes unless the
\* directory cannot be created; it writes no file, prints no line, and
\* leaves the output directory in existence.
C5_EmptyInput ==
    (InRun /\ input_file.exists /\ N = 0) =>
        /\ pc = "failed" => (fault = "makedirs" \/ pre.dir = "file")
        /\ ~Writing
        /\ files = pre.files
        /\ touched = {}
        /\ stdout = <<>>
        /\ pc = "done" => fs_dir = "dir"

C5_Witness ==
    /\ pc = "done"
    /\ input_file.exists
    /\ N = 0
    /\ pre.dir = "absent"
    /\ fs_dir = "dir"

\* C6: a run on a missing input never gets past opening it: it ends in
\* failure, no file of the directory is created or changed, no line is
\* printed, and the only change to the filesystem is that an absent output
\* directory now exists.
C6_MissingInput ==
    (InRun /\ ~input_file.exists) =>
        /\ pc \in {"makedirs", "open", "failed"}
        /\ files = pre.files
        /\ touched = {}
        /\ stdout = <<>>
        /\ fs_dir # pre.dir => (pre.dir = "absent" /\ fs_dir = "dir")

C6_Witness ==
    /\ pc = "failed"
    /\ ~input_file.exists
    /\ pre.dir = "absent"
    /\ fs_dir = "dir"

\* C7: the k-th line printed is "Written <output_dir>/pharokka_<k>.gbk",
\* the path of the k-th completed write; a line is printed only after its
\* write has completed; the write of the next file begins only after the
\* line of the previous one is printed; when the run ends, by completion
\* or by failure, there are as many lines as completed writes.
C7_ProgressLines ==
    /\ \A k \in 1..Len(stdout) :
          /\ stdout[k] = <<"Written", OutputFile(k)>>
          /\ k <= Len(written)
          /\ stdout[k][2] = written[k]
    /\ Len(written) = IF pc = "print" THEN Len(stdout) + 1 ELSE Len(stdout)
    /\ pc \in {"write_open", "write_body"} => Len(stdout) = n - 1
    /\ touched \subseteq Pharokka(1..(Len(stdout) + 1))
    /\ pc = "done" => Len(stdout) = N

C7_Witness ==
    /\ pc = "print"
    /\ Len(stdout) = 2
    /\ Len(written) = 3

\* C8: once the write of the record at position k has failed, the run is
\* over in failure at that record (n = k): nothing was opened for a later
\* position, k-1 writes completed and k-1 lines are printed, and
\* pharokka_1.gbk .. pharokka_<k-1>.gbk hold what this run wrote.
C8_FailFastOnWrite ==
    fault = "write" =>
        /\ pc = "failed"
        /\ n \in 1..N
        /\ Len(written) = n - 1
        /\ Len(stdout) = n - 1
        /\ touched \subseteq Pharokka(1..n)
        /\ \A j \in 1..(n - 1) :
              /\ OutputFile(j) \in DOMAIN files
              /\ files[OutputFile(j)] = <<Rewritten(j)>>

C8_Witness ==
    /\ pc = "failed"
    /\ fault = "write"
    /\ n = 2
    /\ N = 3
    /\ files[OutputFile(1)] = <<Rewritten(1)>>
    /\ OutputFile(1) \notin DOMAIN pre.files
    /\ OutputFile(3) \notin DOMAIN files

\* C9: a file is opened for writing only when every block of the input has
\* been parsed; while the input is being read nothing has been written,
\* and a run that fails on a malformed record, whichever it is, has
\* written and printed nothing.
C9_ParseBeforeWrite ==
    /\ (Writing \/ pc \in {"loop", "done"} \/ touched # {}) =>
          /\ pos = N
          /\ WellFormed(input_file.blocks)
          /\ records = ParseAll(input_file.blocks)
    /\ pc \in {"makedirs", "open", "parse"} =>
          (touched = {} /\ files = pre.files)
    /\ (InRun /\ ~WellFormed(input_file.blocks)) =>
          (touched = {} /\ files = pre.files /\ stdout = <<>> /\ pc # "done")

C9_Witness ==
    /\ pc = "failed"
    /\ N = 3
    /\ pos = 2
    /\ ~input_file.blocks[3].complete
    /\ files = pre.files

\* C10: within a run no file of the directory disappears, only
\* pharokka_1.gbk .. pharokka_N.gbk are opened for writing, every file
\* that was there before under another name keeps its content, and every
\* new file is one of pharokka_1.gbk .. pharokka_N.gbk.
C10_Frame ==
    /\ DOMAIN pre.files \subseteq DOMAIN files
    /\ touched \subseteq Pharokka(1..N)
    /\ \A q \in DOMAIN pre.files :
          q \notin Pharokka(1..N) => files[q] = pre.files[q]
    /\ \A q \in (DOMAIN files) \ (DOMAIN pre.files) : q \in Pharokka(1..N)

C10_Witness ==
    /\ pc = "done"
    /\ N = 1
    /\ OtherFile \in DOMAIN files
    /\ OutputFile(2) \in DOMAIN files
    /\ files[OutputFile(2)] = pre.files[OutputFile(2)]
    /\ Cardinality(PharokkaFiles(files)) > N

====
